---- MODULE Spec2Model ----
(***************************************************************************)
(* Fill orchestration of signet-orders: Filler (src/src/filler.rs) and     *)
(* BundleSender (src/src/bundle.rs).  One behaviour is one call of an      *)
(* entry point (Filler::fill, Filler::fill_individually or                 *)
(* BundleSender::send_dummy_bundles) against a signer, two chain           *)
(* providers and the transaction cache, whose answers are chosen           *)
(* nondeterministically.                                                   *)
(***************************************************************************)
EXTENDS Naturals, Integers, Sequences, FiniteSets, TLC

\* ------------------------------------------------------------------ bounds
MaxOrders == 2
MaxBlock == 2
MaxNumBlocks == 3

\* ------------------------------------------------- configuration constants
RollupChainId == 1
HostChainId == 2
UnknownChainId == 3
DEFAULT_GAS_LIMIT == 1000000
DEFAULT_PRIORITY_FEE_MULTIPLIER == 16

RuOrders == "ru_orders_contract"
HostOrders == "host_orders_contract"
SignerAddress == "filler_address"
ZeroAddress == "0x0"

\* chain id and orders contract of the two providers / SignetConstants
ru_provider == [chain_id |-> RollupChainId, label |-> "rollup", next_nonce |-> 0]
host_provider == [chain_id |-> HostChainId, label |-> "host", next_nonce |-> 0]

\* constants.system(): the chains with a configured orders contract
SystemContracts == [c \in {RollupChainId, HostChainId} |->
                      IF c = RollupChainId THEN RuOrders ELSE HostOrders]

\* -------------------------------------------------------------- input data
\* A U256 is kept as (upper 192 bits, lower 64 bits); only hi = 0 fits a u64.
U256(h, l) == [hi |-> h, lo |-> l]

Output(t, a, c) == [token |-> t, amount |-> a, chainId |-> c]

\* The signed orders a caller can pass; id stands for the permit signature.
OrderPool ==
  { [id |-> 1, outputs |-> <<Output("usdc_ru", 1, RollupChainId)>>,
     deadline |-> U256(0, 2)],
    [id |-> 2, outputs |-> <<Output("usdc_host", 1, HostChainId)>>,
     deadline |-> U256(0, 1)],
    [id |-> 3, outputs |-> <<Output("usdc_ru", 2, RollupChainId),
                             Output("usdc_host", 1, HostChainId)>>,
     deadline |-> U256(0, 2)],
    [id |-> 4, outputs |-> <<Output("usdc_x", 1, UnknownChainId)>>,
     deadline |-> U256(0, 1)],
    [id |-> 5, outputs |-> <<Output("usdc_host", 1, HostChainId)>>,
     deadline |-> U256(1, 0)] }

SeqsUpTo(S, n) == UNION { [1..k -> S] : k \in 0..n }

OrderLists == SeqsUpTo(OrderPool, MaxOrders)

\* ------------------------------------------------------------ result types
Ok(v) == [ok |-> TRUE, val |-> v]
None == [ok |-> FALSE, val |-> <<>>]

\* ------------------------------------------------------- pure computations
\* variant: the emptiness guard never fires
is_empty_never(s) == Len(s) < 0

is_empty(s) == Len(s) = 0

\* variant: the 256-bit value is cut to its low 64 bits
parse_u64_truncate(d) == Ok(d.lo)

\* orders[0].permit().permit.deadline.to_string().parse::<u64>()
parse_u64(d) == IF d.hi = 0 THEN Ok(d.lo) ELSE None

\* all outputs of all orders, in order
RECURSIVE AllOutputs(_)
AllOutputs(os) ==
  IF os = <<>> THEN <<>> ELSE Head(os).outputs \o AllOutputs(Tail(os))

RECURSIVE SumFor(_, _, _)
SumFor(outs, c, t) ==
  IF outs = <<>> THEN 0
  ELSE (IF Head(outs).chainId = c /\ Head(outs).token = t
        THEN Head(outs).amount ELSE 0) + SumFor(Tail(outs), c, t)

\* AggregateOrders: orders.iter().collect() -- per (chain id, token) sums
AggregateOrders(os) ==
  LET outs == AllOutputs(os)
      keys == { <<outs[i].chainId, outs[i].token>> : i \in 1..Len(outs) }
  IN  [k \in keys |-> SumFor(outs, k[1], k[2])]

target_chain_ids(agg) == { k[1] : k \in DOMAIN agg }

\* UnsignedFill::from(&agg).with_deadline(deadline).with_chain(system)
UnsignedFill(agg, deadline) ==
  [orders |-> agg, deadline |-> deadline, target_chains |-> SystemContracts]

\* unsigned_fill.sign(&signer): one SignedFill per target chain id
SignedFillFor(uf, c) ==
  [chain_id |-> c,
   outputs |-> [k \in { q \in DOMAIN uf.orders : q[1] = c } |-> uf.orders[k]],
   deadline |-> uf.deadline,
   order_contract |-> uf.target_chains[c],
   signer |-> SignerAddress]

sign(uf) == [c \in target_chain_ids(uf.orders) |-> SignedFillFor(uf, c)]

\* SignedFill::to_fill_tx / SignedOrder::to_initiate_tx
to_fill_tx(fill, contract) ==
  [kind |-> "fill", to |-> contract, payload |-> fill,
   token_recipient |-> ZeroAddress, value |-> 0]

to_initiate_tx(order, recipient, contract) ==
  [kind |-> "initiate", to |-> contract, payload |-> order,
   token_recipient |-> recipient, value |-> 0]

RECURSIVE InitiateTxs(_)
InitiateTxs(os) ==
  IF os = <<>> THEN <<>>
  ELSE <<to_initiate_tx(Head(os), SignerAddress, RuOrders)>> \o InitiateTxs(Tail(os))

\* variant: the fill is pushed after the initiates
rollup_txn_requests_fill_last(fills, os) ==
  InitiateTxs(os)
  \o (IF RollupChainId \in DOMAIN fills
      THEN <<to_fill_tx(fills[RollupChainId], RuOrders)>> ELSE <<>>)

\* variant: the initiate loop sits inside the `if let Some(rollup_fill)`
rollup_txn_requests_inside_if(fills, os) ==
  IF RollupChainId \in DOMAIN fills
  THEN <<to_fill_tx(fills[RollupChainId], RuOrders)>> \o InitiateTxs(os)
  ELSE <<>>

rollup_txn_requests(fills, os) ==
  (IF RollupChainId \in DOMAIN fills
   THEN <<to_fill_tx(fills[RollupChainId], RuOrders)>> ELSE <<>>)
  \o InitiateTxs(os)

\* variant: the host list is keyed by the rollup chain id
host_txn_requests_rollup_key(fills) ==
  IF RollupChainId \in DOMAIN fills
  THEN <<to_fill_tx(fills[RollupChainId], HostOrders)>> ELSE <<>>

\* variant: the host fill is addressed to the rollup orders contract
host_txn_requests_rollup_orders(fills) ==
  IF HostChainId \in DOMAIN fills
  THEN <<to_fill_tx(fills[HostChainId], RuOrders)>> ELSE <<>>

host_txn_requests(fills) ==
  IF HostChainId \in DOMAIN fills
  THEN <<to_fill_tx(fills[HostChainId], HostOrders)>> ELSE <<>>

\* tx.with_from(..).with_gas_limit(..).with_max_priority_fee_per_gas(..),
\* then provider.fill(tx): the signed envelope of the request on that chain
FilledTx(tx, provider, from, gas) ==
  [request |-> tx, from |-> from, gas_limit |-> gas,
   max_priority_fee_gwei |-> DEFAULT_PRIORITY_FEE_MULTIPLIER,
   chain_id |-> provider.chain_id, nonce |-> provider.next_nonce]

encoded_2718(filled) == <<"0x02", filled>>
tx_hash(filled) == <<"keccak256", encoded_2718(filled)>>

SignedTx(tx, provider) ==
  LET filled == FilledTx(tx, provider, SignerAddress, DEFAULT_GAS_LIMIT)
  IN  [encoded |-> encoded_2718(filled), hash |-> tx_hash(filled)]

\* the transaction a wire encoding carries
Decode(encoded) == encoded[2]

\* the hash of the transaction a wire encoding carries
HashOfEncoded(enc) == tx_hash(Decode(enc))

\* the elements of a list
Range(s) == { s[j] : j \in 1..Len(s) }

\* signed.into_iter().map(|tx| tx.encoded).collect()
EncodedOf(signed) == [j \in 1..Len(signed) |-> signed[j].encoded]

\* signed.iter().map(|tx| tx.hash).collect()
HashesOf(signed) == [j \in 1..Len(signed) |-> signed[j].hash]


\* ------------------------------------------------------------------- state
VARIABLES
  entry,                  \* entry point called: fill, fill_individually, send_dummy_bundles
                          \* (get_orders when the round trip stops at its fetch)
  orders,                 \* the caller's order slice
  idx,                    \* fill_individually: position of the `for order in orders` loop
  cur,                    \* the slice the running Filler::fill was called with
  pc,                     \* position in the running function
  signed_fills,           \* fill: HashMap<u64, SignedFill> once signed
  tx_requests,            \* fill / send_dummy_bundles: request list being encoded
  host_tx_requests,       \* fill: host request list
  encoded_txs,            \* sign_and_encode_txns: the local accumulator
  rollup_signed,          \* fill: result of encoding the rollup list
  host_signed,            \* fill: result of encoding the host list
  target_block_number,    \* fill: latest + 1; send_dummy_bundles: current_block_number
  watchers,               \* watch_confirmations: one entry per watched hash
  calls,                  \* external calls made by the running attempt, in order
  outcomes,               \* result of every finished Filler::fill attempt
  call_result,            \* what the entry point returned
  tx_cache,               \* bundles the transaction cache accepted, in order
  ru_head,                \* the rollup chain's latest block number
  landed,                 \* positions of tx_cache whose bundle was included in its block
  nonces,                 \* next nonce each provider's nonce filler hands out
  report,                 \* what the error returned by a failed watch names
  num_blocks,             \* send_dummy_bundles argument
  i,                      \* send_dummy_bundles loop index
  target_order,           \* round trip: the order just signed and sent, None otherwise
  fetched                 \* round trip: the orders get_orders returned

vars == <<entry, orders, idx, cur, pc, signed_fills, tx_requests,
          host_tx_requests, encoded_txs, rollup_signed, host_signed,
          target_block_number, watchers, calls, outcomes, call_result,
          tx_cache, ru_head, landed, nonces, report, num_blocks, i,
          target_order, fetched>>

attemptVars == <<signed_fills, tx_requests, host_tx_requests, encoded_txs,
                 rollup_signed, host_signed, target_block_number, watchers>>
callerVars == <<entry, orders, num_blocks, i, target_order, fetched>>

\* the provider as it stands: its nonce filler counts the transactions it filled
ProviderNow(p) == [p EXCEPT !.next_nonce = nonces[p.label]]

\* one more transaction filled on that provider
NonceAfter(p, reqs, acc, out) ==
  IF Len(acc) < Len(reqs) /\ out \in {"ok", "chain_id_err"}
  THEN [nonces EXCEPT ![p.label] = @ + 1] ELSE nonces

\* no watch error returned
NoReport == [kind |-> "none", chain |-> "", hash |-> <<>>]

\* an external call: what was called, on whom, whether it returned without
\* error, and the value it returned (or the position it was made for)
Call(op, chain, ok, val) == [op |-> op, chain |-> chain, ok |-> ok, val |-> val]

Init ==
  /\ entry = "none"
  /\ orders = <<>>
  /\ idx = 0
  /\ cur = <<>>
  /\ pc = "idle"
  /\ signed_fills = None
  /\ tx_requests = None
  /\ host_tx_requests = None
  /\ encoded_txs = <<>>
  /\ rollup_signed = None
  /\ host_signed = None
  /\ target_block_number = None
  /\ watchers = <<>>
  /\ calls = <<>>
  /\ outcomes = <<>>
  /\ call_result = "none"
  /\ tx_cache = <<>>
  /\ ru_head = 0
  /\ landed = {}
  /\ nonces = [rollup |-> 0, host |-> 0]
  /\ report = NoReport
  /\ num_blocks = 0
  /\ i = 0
  /\ target_order = None
  /\ fetched = <<>>

\* variant: the fills of the previous attempt are kept in the engine
FreshAttempt_cached_fills ==
  /\ signed_fills' = signed_fills
  /\ tx_requests' = None
  /\ host_tx_requests' = None
  /\ encoded_txs' = <<>>
  /\ rollup_signed' = None
  /\ host_signed' = None
  /\ target_block_number' = None
  /\ watchers' = <<>>
  /\ calls' = <<>>

\* a fresh Filler::fill frame: every local of the previous attempt is gone
FreshAttempt ==
  /\ signed_fills' = None
  /\ tx_requests' = None
  /\ host_tx_requests' = None
  /\ encoded_txs' = <<>>
  /\ rollup_signed' = None
  /\ host_signed' = None
  /\ target_block_number' = None
  /\ watchers' = <<>>
  /\ calls' = <<>>

\* Filler::fill returns res to its caller: `?` in fill_individually
\* propagates an error, Ok(()) continues the loop
Return(res) ==
  /\ outcomes' = Append(outcomes, res)
  /\ IF entry = "fill_individually" /\ res = "ok"
     THEN /\ pc' = "for_order"
          /\ idx' = idx + 1
          /\ call_result' = call_result
     ELSE /\ pc' = "done"
          /\ idx' = idx
          /\ call_result' = res

\* --------------------------------------------------------- entry points
CallFill(os) ==
  /\ pc = "idle"
  /\ entry' = "fill"
  /\ orders' = os
  /\ cur' = os
  /\ pc' = "fill"
  /\ UNCHANGED <<idx, attemptVars, calls, outcomes, call_result, tx_cache,
                 ru_head, landed, nonces, report, num_blocks, i,
                 target_order, fetched>>

CallFillIndividually(os) ==
  /\ pc = "idle"
  /\ entry' = "fill_individually"
  /\ orders' = os
  /\ idx' = 1
  /\ pc' = "for_order"
  /\ UNCHANGED <<cur, attemptVars, calls, outcomes, call_result, tx_cache,
                 ru_head, landed, nonces, report, num_blocks, i,
                 target_order, fetched>>

\* ------------------------------------- round trip (src/bin/roundtrip.rs)
\* the example order the binary signs and sends: one rollup input against
\* one output on the rollup (rollup = TRUE) or on the host
get_example_order(rollup) ==
  CHOOSE o \in OrderPool : o.id = (IF rollup THEN 1 ELSE 2)

\* what Filler::get_orders can return: an error of the transaction cache, or
\* the orders the cache holds
CacheAnswers == {None} \cup { Ok(os) : os \in OrderLists }

\* orders.retain(|o| o == target_order): the elements equal to the target,
\* in their order
retain(os, target) ==
  LET RECURSIVE Keep(_)
      Keep(p) == IF p > Len(os) THEN <<>>
                 ELSE (IF os[p] = target THEN <<os[p]>> ELSE <<>>) \o Keep(p + 1)
  IN  Keep(1)

\* fill_orders: let mut orders = filler.get_orders().await?;
\* orders.retain(|o| o == target_order);
\* filler.fill_individually(orders.as_slice()).await?; Ok(())
fill_orders(target, resp) ==
  /\ pc = "idle"
  /\ target_order' = Ok(target)
  /\ IF resp.ok
     THEN /\ entry' = "fill_individually"
          /\ fetched' = resp.val
          /\ orders' = retain(resp.val, target)
          /\ idx' = 1
          /\ pc' = "for_order"
          /\ UNCHANGED call_result
     ELSE /\ entry' = "get_orders"
          /\ pc' = "done"
          /\ call_result' = "TxCacheError"
          /\ UNCHANGED <<fetched, orders, idx>>
  /\ UNCHANGED <<cur, attemptVars, calls, outcomes, tx_cache, ru_head, landed,
                 nonces, report, num_blocks, i>>

\* variant: each attempt is given the whole slice
fill_individually_whole_slice ==
  /\ pc = "for_order"
  /\ IF idx > Len(orders)
     THEN /\ pc' = "done"
          /\ call_result' = "ok"
          /\ UNCHANGED <<cur, attemptVars, calls>>
     ELSE /\ pc' = "fill"
          /\ cur' = orders
          /\ FreshAttempt
          /\ UNCHANGED call_result
  /\ UNCHANGED <<callerVars, idx, outcomes, tx_cache, ru_head, landed, nonces, report>>

\* variant: an empty slice is refused as fill refuses it
fill_individually_bails_on_empty ==
  /\ pc = "for_order"
  /\ IF idx > Len(orders)
     THEN /\ pc' = "done"
          /\ call_result' = (IF is_empty(orders) THEN "EmptyOrderSet" ELSE "ok")
          /\ UNCHANGED <<cur, attemptVars, calls>>
     ELSE /\ pc' = "fill"
          /\ cur' = <<orders[idx]>>
          /\ FreshAttempt
          /\ UNCHANGED call_result
  /\ UNCHANGED <<callerVars, idx, outcomes, tx_cache, ru_head, landed, nonces, report>>

\* for order in orders { self.fill(from_ref(order)).await?; } Ok(())
fill_individually ==
  /\ pc = "for_order"
  /\ IF idx > Len(orders)
     THEN /\ pc' = "done"
          /\ call_result' = "ok"
          /\ UNCHANGED <<cur, attemptVars, calls>>
     ELSE /\ pc' = "fill"
          /\ cur' = <<orders[idx]>>
          /\ FreshAttempt
          /\ UNCHANGED call_result
  /\ UNCHANGED <<callerVars, idx, outcomes, tx_cache, ru_head, landed, nonces, report>>

\* ------------------------------------------------------------ Filler::fill
\* if orders.is_empty() { bail!("no orders to fill") }
fill ==
  /\ pc = "fill"
  /\ IF is_empty(cur)
     THEN Return("EmptyOrderSet")
     ELSE /\ pc' = "sign_fills"
          /\ UNCHANGED <<idx, outcomes, call_result>>
  /\ UNCHANGED <<callerVars, cur, attemptVars, calls, tx_cache, ru_head, landed, nonces, report>>

\* variant: the earliest deadline among the orders
lead_deadline_min(os) ==
  LET before(a, b) == a.hi < b.hi \/ (a.hi = b.hi /\ a.lo <= b.lo)
      ds == { os[j].deadline : j \in 1..Len(os) }
  IN  CHOOSE d \in ds : \A q \in ds : before(d, q)

\* orders[0].permit().permit.deadline
lead_deadline(os) == os[1].deadline

\* variant: only the first order is collected
orders_iter_first(os) == <<os[1]>>

\* orders.iter(): every order of the slice, in order
orders_iter(os) == os

\* variant: an error of sign() is replaced by an empty map of fills
sign_fills_or_default(signer_ok) ==
  /\ pc = "sign_fills"
  /\ IF is_empty(cur)
     THEN /\ Return("EmptyOrderSet")
          /\ UNCHANGED <<signed_fills, calls>>
     ELSE IF Len(cur) = 0
     THEN /\ Return("panic")
          /\ UNCHANGED <<signed_fills, calls>>
     ELSE LET deadline == parse_u64(lead_deadline(cur))
              agg == AggregateOrders(orders_iter(cur))
              known == target_chain_ids(agg) \subseteq DOMAIN SystemContracts
          IN  IF ~deadline.ok
              THEN /\ Return("InvalidDeadline")
                   /\ UNCHANGED <<signed_fills, calls>>
              ELSE /\ calls' = Append(calls,
                                      Call("sign", "signer", known /\ signer_ok, 0))
                   /\ signed_fills' =
                        IF known /\ signer_ok
                        THEN Ok(sign(UnsignedFill(agg, deadline.val)))
                        ELSE Ok([c \in {} |-> c])
                   /\ pc' = "rollup_txn_requests"
                   /\ UNCHANGED <<idx, outcomes, call_result>>
  /\ UNCHANGED <<callerVars, cur, tx_requests, host_tx_requests, encoded_txs,
                 rollup_signed, host_signed, target_block_number, watchers,
                 tx_cache, ru_head, landed, nonces, report>>

\* sign_fills: empty check, lead deadline, aggregate, sign
sign_fills(signer_ok) ==
  /\ pc = "sign_fills"
  /\ IF is_empty(cur)
     THEN /\ Return("EmptyOrderSet")
          /\ UNCHANGED <<signed_fills, calls>>
     ELSE IF Len(cur) = 0
     THEN \* orders[0] on an empty slice panics
          /\ Return("panic")
          /\ UNCHANGED <<signed_fills, calls>>
     ELSE LET deadline == parse_u64(lead_deadline(cur))
              agg == AggregateOrders(orders_iter(cur))
              known == target_chain_ids(agg) \subseteq DOMAIN SystemContracts
          IN  IF ~deadline.ok
              THEN /\ Return("InvalidDeadline")
                   /\ UNCHANGED <<signed_fills, calls>>
              ELSE /\ calls' = Append(calls,
                                      Call("sign", "signer", known /\ signer_ok, 0))
                   /\ IF ~known
                      THEN /\ Return("UnknownChain")
                           /\ UNCHANGED signed_fills
                      ELSE IF ~signer_ok
                      THEN /\ Return("SigningFailed")
                           /\ UNCHANGED signed_fills
                      ELSE /\ signed_fills' = Ok(sign(UnsignedFill(agg, deadline.val)))
                           /\ pc' = "rollup_txn_requests"
                           /\ UNCHANGED <<idx, outcomes, call_result>>
  /\ UNCHANGED <<callerVars, cur, tx_requests, host_tx_requests, encoded_txs,
                 rollup_signed, host_signed, target_block_number, watchers,
                 tx_cache, ru_head, landed, nonces, report>>

fill_rollup_txn_requests ==
  /\ pc = "rollup_txn_requests"
  /\ tx_requests' = Ok(rollup_txn_requests(signed_fills.val, cur))
  /\ encoded_txs' = <<>>
  /\ pc' = "sign_and_encode_rollup"
  /\ UNCHANGED <<callerVars, idx, cur, signed_fills, host_tx_requests,
                 rollup_signed, host_signed, target_block_number, watchers,
                 calls, outcomes, call_result, tx_cache, ru_head, landed, nonces, report>>


\* variant: a failing request ends the loop and the transactions encoded so
\* far are returned
sign_and_encode_txns_partial(provider, reqs, acc, out) ==
  IF Len(acc) >= Len(reqs) THEN [status |-> "ok", list |-> acc]
  ELSE IF out # "ok" THEN [status |-> "ok", list |-> acc]
  ELSE LET acc2 == Append(acc, SignedTx(reqs[Len(acc) + 1], provider))
       IN  [status |-> IF Len(acc2) = Len(reqs) THEN "ok" ELSE "looping",
            list |-> acc2]

\* variant: each signed transaction is inserted at the front
sign_and_encode_txns_prepend(provider, reqs, acc, out) ==
  IF Len(acc) >= Len(reqs) THEN [status |-> "ok", list |-> acc]
  ELSE IF out # "ok" THEN [status |-> "err", list |-> <<>>]
  ELSE LET acc2 == <<SignedTx(reqs[Len(acc) + 1], provider)>> \o acc
       IN  [status |-> IF Len(acc2) = Len(reqs) THEN "ok" ELSE "looping",
            list |-> acc2]

\* One pass of the `for mut tx in tx_requests` loop of
\* Filler::sign_and_encode_txns over accumulator acc, or the final
\* Ok(encoded_txs).  out is the provider's answer: "ok", "fill_err"
\* (provider.fill is Err), "not_envelope" (bail) or "chain_id_err".
\* status: "looping", "ok" (the function returned Ok(list)) or "err"
\* (it returned Err and the accumulator is dropped).
sign_and_encode_txns(provider, reqs, acc, out) ==
  IF Len(acc) >= Len(reqs) THEN [status |-> "ok", list |-> acc]
  ELSE IF out # "ok" THEN [status |-> "err", list |-> <<>>]
  ELSE LET acc2 == Append(acc, SignedTx(reqs[Len(acc) + 1], provider))
       IN  [status |-> IF Len(acc2) = Len(reqs) THEN "ok" ELSE "looping",
            list |-> acc2]

\* the provider calls one pass makes
EncodeCalls(provider, reqs, acc, out) ==
  IF Len(acc) >= Len(reqs) THEN <<>>
  ELSE IF out \in {"ok", "chain_id_err"}
       THEN <<Call("fill", provider.label, TRUE, Len(acc) + 1),
              Call("get_chain_id", provider.label, out = "ok", Len(acc) + 1)>>
       ELSE <<Call("fill", provider.label, FALSE, Len(acc) + 1)>>

ProviderAnswers == {"ok", "fill_err", "not_envelope", "chain_id_err"}

\* let rollup_signed = self.sign_and_encode_txns(&self.ru_provider, tx_requests).await?;
fill_sign_and_encode_rollup(out) ==
  /\ pc = "sign_and_encode_rollup"
  /\ LET r == sign_and_encode_txns(ProviderNow(ru_provider), tx_requests.val,
                                   encoded_txs, out)
     IN  /\ calls' = calls \o EncodeCalls(ru_provider, tx_requests.val, encoded_txs, out)
         /\ nonces' = NonceAfter(ru_provider, tx_requests.val, encoded_txs, out)
         /\ CASE r.status = "looping" ->
                   /\ encoded_txs' = r.list
                   /\ UNCHANGED <<rollup_signed, pc, idx, outcomes, call_result>>
              [] r.status = "ok" ->
                   /\ encoded_txs' = <<>>
                   /\ rollup_signed' = Ok(r.list)
                   /\ pc' = "host_txn_requests"
                   /\ UNCHANGED <<idx, outcomes, call_result>>
              [] r.status = "err" ->
                   /\ encoded_txs' = <<>>
                   /\ UNCHANGED rollup_signed
                   /\ Return("EncodingFailed")
  /\ UNCHANGED <<callerVars, cur, signed_fills, tx_requests, host_tx_requests,
                 host_signed, target_block_number, watchers, tx_cache, ru_head, landed, report>>

fill_host_txn_requests ==
  /\ pc = "host_txn_requests"
  /\ host_tx_requests' = Ok(host_txn_requests(signed_fills.val))
  /\ encoded_txs' = <<>>
  /\ pc' = "sign_and_encode_host"
  /\ UNCHANGED <<callerVars, idx, cur, signed_fills, tx_requests,
                 rollup_signed, host_signed, target_block_number, watchers,
                 calls, outcomes, call_result, tx_cache, ru_head, landed, nonces, report>>

\* let host_signed = self.sign_and_encode_txns(&self.host_provider, host_tx_requests).await?;
fill_sign_and_encode_host(out) ==
  /\ pc = "sign_and_encode_host"
  /\ LET r == sign_and_encode_txns(ProviderNow(host_provider), host_tx_requests.val,
                                   encoded_txs, out)
     IN  /\ calls' = calls \o EncodeCalls(host_provider, host_tx_requests.val, encoded_txs, out)
         /\ nonces' = NonceAfter(host_provider, host_tx_requests.val, encoded_txs, out)
         /\ CASE r.status = "looping" ->
                   /\ encoded_txs' = r.list
                   /\ UNCHANGED <<host_signed, pc, idx, outcomes, call_result>>
              [] r.status = "ok" ->
                   /\ encoded_txs' = <<>>
                   /\ host_signed' = Ok(r.list)
                   /\ pc' = "get_block_number"
                   /\ UNCHANGED <<idx, outcomes, call_result>>
              [] r.status = "err" ->
                   /\ encoded_txs' = <<>>
                   /\ UNCHANGED host_signed
                   /\ Return("EncodingFailed")
  /\ UNCHANGED <<callerVars, cur, signed_fills, tx_requests, host_tx_requests,
                 rollup_signed, target_block_number, watchers, tx_cache, ru_head, landed, report>>

\* variant: the bundle targets the observed block itself
TargetOf_same(latest) == latest

\* policy offset of the single-shot bundle: latest_ru_block_number + 1
TargetOf(latest) == latest + 1

\* let latest = self.ru_provider.get_block_number().await?; target = latest + 1
fill_get_block_number(provider_ok) ==
  /\ pc = "get_block_number"
  /\ calls' = Append(calls, Call("get_block_number", "rollup", provider_ok, ru_head))
  /\ IF provider_ok
     THEN /\ target_block_number' = Ok(TargetOf(ru_head))
          /\ pc' = "send_bundle"
          /\ UNCHANGED <<idx, outcomes, call_result>>
     ELSE /\ UNCHANGED target_block_number
          /\ Return("ProviderError")
  /\ UNCHANGED <<callerVars, cur, signed_fills, tx_requests, host_tx_requests,
                 encoded_txs, rollup_signed, host_signed, watchers, tx_cache,
                 ru_head, landed, nonces, report>>

\* variant: the two lists are passed in each other's place
SignetEthBundle_swapped(ru_txs, host_txs, block_number) ==
  [host_txs |-> ru_txs, txs |-> host_txs, block_number |-> block_number,
   reverting_tx_hashes |-> <<>>, min_timestamp |-> None,
   max_timestamp |-> None, replacement_uuid |-> None]

\* SignetEthBundle { host_txs, bundle: EthSendBundle { txs, block_number, ..Default } }
SignetEthBundle(ru_txs, host_txs, block_number) ==
  [host_txs |-> host_txs, txs |-> ru_txs, block_number |-> block_number,
   reverting_tx_hashes |-> <<>>, min_timestamp |-> None,
   max_timestamp |-> None, replacement_uuid |-> None]

\* variant: the relay's error is dropped and the attempt goes on to watch
send_bundle_swallow(relay_ok) ==
  /\ pc = "send_bundle"
  /\ calls' = Append(calls, Call("forward_bundle", "tx_cache", relay_ok,
                                  Len(tx_cache) + 1))
  /\ tx_cache' = IF relay_ok
                 THEN Append(tx_cache,
                        SignetEthBundle(EncodedOf(rollup_signed.val),
                                        EncodedOf(host_signed.val),
                                        target_block_number.val))
                 ELSE tx_cache
  /\ pc' = "watch_confirmations"
  /\ UNCHANGED <<idx, outcomes, call_result>>
  /\ UNCHANGED <<callerVars, cur, attemptVars, ru_head, landed, nonces, report>>

\* variant: a rejected bundle is submitted a second time
send_bundle_retry(relay_ok) ==
  /\ pc = "send_bundle"
  /\ calls' = Append(calls, Call("forward_bundle", "tx_cache", relay_ok,
                                  Len(tx_cache) + 1))
  /\ IF relay_ok
     THEN /\ tx_cache' = Append(tx_cache,
                SignetEthBundle(EncodedOf(rollup_signed.val),
                                EncodedOf(host_signed.val),
                                target_block_number.val))
          /\ pc' = "watch_confirmations"
          /\ UNCHANGED <<idx, outcomes, call_result>>
     ELSE IF \E j \in 1..Len(calls) : calls[j].op = "forward_bundle"
     THEN /\ UNCHANGED tx_cache
          /\ Return("RelayRejected")
     ELSE UNCHANGED <<tx_cache, pc, idx, outcomes, call_result>>
  /\ UNCHANGED <<callerVars, cur, attemptVars, ru_head, landed, nonces, report>>
\* time at which rollup block b is produced: one unit per block
Timestamp(b) == b

\* some order of os has a deadline that has passed at block b
Expired(os, b) ==
  \E a \in 1..Len(os) : os[a].deadline.hi = 0 /\ Timestamp(b) > os[a].deadline.lo

\* variant: nothing is submitted once an order's deadline has passed
send_bundle_unless_expired(relay_ok) ==
  /\ pc = "send_bundle"
  /\ IF Expired(cur, ru_head)
     THEN /\ UNCHANGED <<tx_cache, calls>>
          /\ Return("DeadlineExpired")
     ELSE /\ calls' = Append(calls, Call("forward_bundle", "tx_cache", relay_ok,
                                          Len(tx_cache) + 1))
          /\ IF relay_ok
             THEN /\ tx_cache' = Append(tx_cache,
                        SignetEthBundle(EncodedOf(rollup_signed.val),
                                        EncodedOf(host_signed.val),
                                        target_block_number.val))
                  /\ pc' = "watch_confirmations"
                  /\ UNCHANGED <<idx, outcomes, call_result>>
             ELSE /\ UNCHANGED tx_cache
                  /\ Return("RelayRejected")
  /\ UNCHANGED <<callerVars, cur, signed_fills, tx_requests, host_tx_requests,
                 encoded_txs, rollup_signed, host_signed, target_block_number,
                 watchers, ru_head, landed, nonces, report>>

\* self.send_bundle(txs, host_txs, target_block_number).await?
send_bundle(relay_ok) ==
  /\ pc = "send_bundle"
  /\ calls' = Append(calls, Call("forward_bundle", "tx_cache", relay_ok,
                                  Len(tx_cache) + 1))
  /\ IF relay_ok
     THEN /\ tx_cache' = Append(tx_cache,
                SignetEthBundle(EncodedOf(rollup_signed.val),
                                EncodedOf(host_signed.val),
                                target_block_number.val))
          /\ pc' = "watch_confirmations"
          /\ UNCHANGED <<idx, outcomes, call_result>>
     ELSE /\ UNCHANGED tx_cache
          /\ Return("RelayRejected")
  /\ UNCHANGED <<callerVars, cur, attemptVars, ru_head, landed, nonces, report>>

Watcher(hash, chain) == [hash |-> hash, chain |-> chain, status |-> "pending"]

\* for hash in hashes { watchers.push(self.watch_single(provider, *hash, label)) }
WatchersFor(hashes, chain) == [j \in 1..Len(hashes) |-> Watcher(hashes[j], chain)]

\* each watch_single first calls provider.watch_pending_transaction
WatchCalls(ws) ==
  [j \in 1..Len(ws) |-> Call("watch_pending_transaction", ws[j].chain, TRUE, 0)]

\* variant: every hash is watched on the rollup provider
watch_confirmations_one_provider ==
  /\ pc = "watch_confirmations"
  /\ LET ws == WatchersFor(HashesOf(rollup_signed.val) \o HashesOf(host_signed.val),
                           "rollup")
     IN  /\ watchers' = ws
         /\ calls' = calls \o WatchCalls(ws)
         /\ IF ws = <<>>
            THEN Return("ok")
            ELSE /\ pc' = "watching"
                 /\ UNCHANGED <<idx, outcomes, call_result>>
  /\ UNCHANGED <<callerVars, cur, signed_fills, tx_requests, host_tx_requests,
                 encoded_txs, rollup_signed, host_signed, target_block_number,
                 tx_cache, ru_head, landed, nonces, report>>

\* watch_confirmations: one watch_single per rollup hash, then per host hash,
\* all polled by try_join_all
watch_confirmations ==
  /\ pc = "watch_confirmations"
  /\ LET ws == WatchersFor(HashesOf(rollup_signed.val), "rollup")
               \o WatchersFor(HashesOf(host_signed.val), "host")
     IN  /\ watchers' = ws
         /\ calls' = calls \o WatchCalls(ws)
         /\ IF ws = <<>>
            THEN Return("ok")
            ELSE /\ pc' = "watching"
                 /\ UNCHANGED <<idx, outcomes, call_result>>
  /\ UNCHANGED <<callerVars, cur, signed_fills, tx_requests, host_tx_requests,
                 encoded_txs, rollup_signed, host_signed, target_block_number,
                 tx_cache, ru_head, landed, nonces, report>>

\* variant: one confirmed watch is enough
AllConfirmed_any(ws) == \E k \in 1..Len(ws) : ws[k].status = "confirmed"

AllConfirmed(ws) == \A k \in 1..Len(ws) : ws[k].status = "confirmed"

\* the hashes of the transactions on chain: those of the bundles that landed
IncludedHashes ==
  UNION { { HashOfEncoded(e) :
              e \in Range(tx_cache[j].txs) \cup Range(tx_cache[j].host_txs) } :
          j \in landed }

\* watch_single resolves Ok(()) for watcher k once its transaction has one
\* confirmation; try_join_all returns Ok once every watcher has
watch_single_confirmed(k) ==
  /\ pc = "watching"
  /\ k \in 1..Len(watchers)
  /\ watchers[k].status = "pending"
  /\ watchers[k].hash \in IncludedHashes
  /\ watchers' = [watchers EXCEPT ![k].status = "confirmed"]
  /\ IF AllConfirmed(watchers')
     THEN Return("ok")
     ELSE UNCHANGED <<pc, idx, outcomes, call_result>>
  /\ UNCHANGED <<callerVars, cur, signed_fills, tx_requests, host_tx_requests,
                 encoded_txs, rollup_signed, host_signed, target_block_number,
                 calls, tx_cache, ru_head, landed, nonces, report>>

WatchErrors == {"ConfirmationError", "ConfirmationTimeout"}

\* variant: no error of a watch names its chain and hash
WatchError_unnamed(w, err) == [kind |-> err, chain |-> "", hash |-> <<>>]

\* the error watch_single returns: an error of watch_pending_transaction is
\* passed on by `?` as it is, an error of the pending transaction is mapped to
\* "failed waiting for {chain_label} tx {tx_hash:?}: {err}"
WatchError(w, err) ==
  IF err = "ConfirmationTimeout"
  THEN [kind |-> err, chain |-> w.chain, hash |-> w.hash]
  ELSE [kind |-> err, chain |-> "", hash |-> <<>>]

\* variant: a failed watch is recorded and the error is returned only once no
\* watch is pending
watch_single_failed_wait_all(k, err) ==
  /\ pc = "watching"
  /\ k \in 1..Len(watchers)
  /\ watchers[k].status = "pending"
  /\ watchers' = [watchers EXCEPT ![k].status = err]
  /\ IF \A j \in 1..Len(watchers') : watchers'[j].status # "pending"
     THEN /\ report' = WatchError(watchers[k], err)
          /\ Return(err)
     ELSE UNCHANGED <<report, pc, idx, outcomes, call_result>>
  /\ UNCHANGED <<callerVars, cur, signed_fills, tx_requests, host_tx_requests,
                 encoded_txs, rollup_signed, host_signed, target_block_number,
                 calls, tx_cache, ru_head, landed, nonces>>

\* variant: the watch is configured without a timeout
watch_single_failed_no_timeout(k, err) ==
  /\ err # "ConfirmationTimeout"
  /\ pc = "watching"
  /\ k \in 1..Len(watchers)
  /\ watchers[k].status = "pending"
  /\ watchers' = [watchers EXCEPT ![k].status = err]
  /\ report' = WatchError(watchers[k], err)
  /\ Return(err)
  /\ UNCHANGED <<callerVars, cur, signed_fills, tx_requests, host_tx_requests,
                 encoded_txs, rollup_signed, host_signed, target_block_number,
                 calls, tx_cache, ru_head, landed, nonces>>

\* watch_single resolves Err for watcher k: try_join_all returns that error
\* at once and drops the watchers still pending
watch_single_failed(k, err) ==
  /\ pc = "watching"
  /\ k \in 1..Len(watchers)
  /\ watchers[k].status = "pending"
  /\ watchers' = [watchers EXCEPT ![k].status = err]
  /\ report' = WatchError(watchers[k], err)
  /\ Return(err)
  /\ UNCHANGED <<callerVars, cur, signed_fills, tx_requests, host_tx_requests,
                 encoded_txs, rollup_signed, host_signed, target_block_number,
                 calls, tx_cache, ru_head, landed, nonces>>


\* ------------------------------------------- BundleSender (src/src/bundle.rs)
CallSendDummyBundles(n) ==
  /\ pc = "idle"
  /\ entry' = "send_dummy_bundles"
  /\ num_blocks' = n
  /\ pc' = "dummy_tx_request"
  /\ UNCHANGED <<orders, idx, cur, attemptVars, calls, outcomes, call_result,
                 tx_cache, ru_head, landed, nonces, report, i,
                 target_order, fetched>>

\* TransactionRequest::default().with_to(Address::default()).with_value(U256::from(1))
dummy_tx_request ==
  <<[kind |-> "transfer", to |-> ZeroAddress, payload |-> <<>>,
     token_recipient |-> ZeroAddress, value |-> 1]>>

send_dummy_tx_request ==
  /\ pc = "dummy_tx_request"
  /\ tx_requests' = Ok(dummy_tx_request)
  /\ encoded_txs' = <<>>
  /\ pc' = "dummy_sign_and_encode"
  /\ UNCHANGED <<callerVars, idx, cur, signed_fills, host_tx_requests,
                 rollup_signed, host_signed, target_block_number, watchers,
                 calls, outcomes, call_result, tx_cache, ru_head, landed, nonces, report>>

\* One pass of the loop of BundleSender::sign_and_encode_txns (Vec<Bytes>)
bundle_sign_and_encode_txns(reqs, acc, out) ==
  IF Len(acc) >= Len(reqs) THEN [status |-> "ok", list |-> acc]
  ELSE IF out # "ok" THEN [status |-> "err", list |-> <<>>]
  ELSE LET filled == FilledTx(reqs[Len(acc) + 1], ProviderNow(ru_provider), SignerAddress,
                              DEFAULT_GAS_LIMIT)
           acc2 == Append(acc, encoded_2718(filled))
       IN  [status |-> IF Len(acc2) = Len(reqs) THEN "ok" ELSE "looping",
            list |-> acc2]

BundleProviderAnswers == {"ok", "fill_err", "not_envelope"}

\* let txs = self.sign_and_encode_txns(tx_requests).await?;
send_dummy_sign_and_encode(out) ==
  /\ pc = "dummy_sign_and_encode"
  /\ LET r == bundle_sign_and_encode_txns(tx_requests.val, encoded_txs, out)
     IN  /\ nonces' = NonceAfter(ru_provider, tx_requests.val, encoded_txs, out)
         /\ calls' = IF Len(encoded_txs) >= Len(tx_requests.val) THEN calls
                     ELSE Append(calls, Call("fill", "rollup", out = "ok",
                                             Len(encoded_txs) + 1))
         /\ CASE r.status = "looping" ->
                   /\ encoded_txs' = r.list
                   /\ UNCHANGED <<rollup_signed, pc, call_result>>
              [] r.status = "ok" ->
                   /\ encoded_txs' = <<>>
                   /\ rollup_signed' = Ok(r.list)
                   /\ pc' = "dummy_get_block_number"
                   /\ UNCHANGED call_result
              [] r.status = "err" ->
                   /\ encoded_txs' = <<>>
                   /\ pc' = "done"
                   /\ call_result' = "EncodingFailed"
                   /\ UNCHANGED rollup_signed
  /\ UNCHANGED <<callerVars, idx, cur, signed_fills, tx_requests,
                 host_tx_requests, host_signed, target_block_number, watchers,
                 outcomes, tx_cache, ru_head, landed, report>>

\* lowest block of the resubmission window: get_block_number() + 1
LowestTarget(latest) == latest + 1

\* let current_block_number = self.ru_provider.get_block_number().await? + 1;
send_dummy_get_block_number(provider_ok) ==
  /\ pc = "dummy_get_block_number"
  /\ calls' = Append(calls, Call("get_block_number", "rollup", provider_ok, ru_head))
  /\ IF provider_ok
     THEN /\ target_block_number' = Ok(LowestTarget(ru_head))
          /\ i' = 0
          /\ pc' = "dummy_loop"
          /\ UNCHANGED call_result
     ELSE /\ pc' = "done"
          /\ call_result' = "ProviderError"
          /\ UNCHANGED <<target_block_number, i>>
  /\ UNCHANGED <<entry, orders, num_blocks, target_order, fetched, idx, cur,
                 signed_fills, tx_requests, host_tx_requests, encoded_txs, rollup_signed,
                 host_signed, watchers, outcomes, tx_cache, ru_head, landed, nonces, report>>

\* variant: the transactions are signed again for every target block
DummyBundle_resigned(txs, block_number) ==
  [host_fills |-> None,
   txs |-> [j \in 1..Len(txs) |-> <<txs[j], block_number>>],
   block_number |-> block_number,
   reverting_tx_hashes |-> <<>>, min_timestamp |-> None,
   max_timestamp |-> None, replacement_uuid |-> None]

\* the bundle literal of send_dummy_bundles
DummyBundle(txs, block_number) ==
  [host_fills |-> None, txs |-> txs, block_number |-> block_number,
   reverting_tx_hashes |-> <<>>, min_timestamp |-> None,
   max_timestamp |-> None, replacement_uuid |-> None]

\* variant: every bundle targets the lowest block
DummyTarget_fixed(current_block_number, k) == current_block_number

\* target_block_number = current_block_number + i
DummyTarget(current_block_number, k) == current_block_number + k

\* variant: a relay error is logged and the loop goes on to the next block
send_dummy_bundles_continue(relay_ok) ==
  /\ pc = "dummy_loop"
  /\ IF i >= num_blocks
     THEN /\ pc' = "done"
          /\ call_result' = "ok"
          /\ UNCHANGED <<i, calls, tx_cache>>
     ELSE /\ calls' = Append(calls, Call("forward_bundle", "tx_cache", relay_ok, i))
          /\ tx_cache' = IF relay_ok
                         THEN Append(tx_cache,
                                DummyBundle(rollup_signed.val,
                                            DummyTarget(target_block_number.val, i)))
                         ELSE tx_cache
          /\ i' = i + 1
          /\ UNCHANGED <<pc, call_result>>
  /\ UNCHANGED <<entry, orders, num_blocks, target_order, fetched, idx, cur,
                 attemptVars, outcomes,
                 ru_head, landed, nonces, report>>

\* for i in 0..num_blocks { forward_bundle(bundle).await?; } Ok(())
send_dummy_bundles(relay_ok) ==
  /\ pc = "dummy_loop"
  /\ IF i >= num_blocks
     THEN /\ pc' = "done"
          /\ call_result' = "ok"
          /\ UNCHANGED <<i, calls, tx_cache>>
     ELSE /\ calls' = Append(calls, Call("forward_bundle", "tx_cache", relay_ok, i))
          /\ IF relay_ok
             THEN /\ tx_cache' = Append(tx_cache,
                        DummyBundle(rollup_signed.val,
                                    DummyTarget(target_block_number.val, i)))
                  /\ i' = i + 1
                  /\ UNCHANGED <<pc, call_result>>
             ELSE /\ pc' = "done"
                  /\ call_result' = "RelayRejected"
                  /\ UNCHANGED <<i, tx_cache>>
  /\ UNCHANGED <<entry, orders, num_blocks, target_order, fetched, idx, cur,
                 attemptVars, outcomes,
                 ru_head, landed, nonces, report>>

\* ------------------------------------------------------------- environment

\* the rollup transactions already included in a block
Mined == UNION { Range(tx_cache[j].txs) : j \in landed }

\* the bundle at position j can be included in block b: it targets b and none
\* of its signed transactions is mined already (a bundle is included whole or
\* not at all, and a signed transaction is included at most once)
CanLand(j, b) ==
  /\ j \in 1..Len(tx_cache)
  /\ j \notin landed
  /\ tx_cache[j].block_number = b
  /\ Range(tx_cache[j].txs) \cap Mined = {}

\* bundles that can share a block: no signed transaction in two of them
Compatible(inc) ==
  \A j, k \in inc :
    j # k => Range(tx_cache[j].txs) \cap Range(tx_cache[k].txs) = {}

\* the rollup produces its next block, with any of the bundles targeting it
AdvanceBlock(inc) ==
  /\ pc # "idle"
  /\ ru_head < MaxBlock
  /\ \A j \in inc : CanLand(j, ru_head + 1)
  /\ Compatible(inc)
  /\ ru_head' = ru_head + 1
  /\ landed' = landed \cup inc
  /\ UNCHANGED <<callerVars, idx, cur, pc, attemptVars, calls, outcomes,
                 call_result, tx_cache, nonces, report>>

Next ==
  \/ \E os \in OrderLists : CallFill(os)
  \/ \E os \in OrderLists : CallFillIndividually(os)
  \/ \E n \in 0..MaxNumBlocks : CallSendDummyBundles(n)
  \/ \E rollup \in BOOLEAN, resp \in CacheAnswers :
       fill_orders(get_example_order(rollup), resp)
  \/ fill_individually
  \/ fill
  \/ \E b \in BOOLEAN : sign_fills(b)
  \/ fill_rollup_txn_requests
  \/ \E out \in ProviderAnswers : fill_sign_and_encode_rollup(out)
  \/ fill_host_txn_requests
  \/ \E out \in ProviderAnswers : fill_sign_and_encode_host(out)
  \/ \E b \in BOOLEAN : fill_get_block_number(b)
  \/ \E b \in BOOLEAN : send_bundle(b)
  \/ watch_confirmations
  \/ \E k \in 1..Len(watchers) : watch_single_confirmed(k)
  \/ \E k \in 1..Len(watchers), err \in WatchErrors : watch_single_failed(k, err)
  \/ send_dummy_tx_request
  \/ \E out \in BundleProviderAnswers : send_dummy_sign_and_encode(out)
  \/ \E b \in BOOLEAN : send_dummy_get_block_number(b)
  \/ \E b \in BOOLEAN : send_dummy_bundles(b)
  \/ \E inc \in SUBSET (1..Len(tx_cache)) : AdvanceBlock(inc)

Spec == Init /\ [][Next]_vars


\* ------------------------------------------------------------------ claims
FillEntries == {"fill", "fill_individually"}

HasKind(reqs, kind) == \E j \in 1..Len(reqs) : reqs[j].kind = kind

\* C1: with a SignedFill for the rollup chain id, the rollup request list is
\* the rollup fill at index 0 followed by exactly one initiate per input
\* order, in input order; no initiate precedes the fill.
C1_FillFirst ==
  (entry \in FillEntries /\ tx_requests.ok
     /\ RollupChainId \in DOMAIN signed_fills.val) =>
    LET reqs == tx_requests.val
    IN  /\ Len(reqs) = Len(cur) + 1
        /\ reqs[1].kind = "fill"
        /\ reqs[1].payload = signed_fills.val[RollupChainId]
        /\ \A j \in 1..Len(cur) :
             /\ reqs[j + 1].kind = "initiate"
             /\ reqs[j + 1].payload = cur[j]
        /\ \A j \in 1..Len(reqs) : reqs[j].kind = "initiate" => j > 1

C1_Witness ==
  /\ entry = "fill" /\ tx_requests.ok
  /\ RollupChainId \in DOMAIN signed_fills.val
  /\ Len(cur) = 2 /\ cur[1].id # cur[2].id

\* C2: without a SignedFill for the rollup chain id the rollup request list
\* holds no fill and exactly one initiate per input order, in input order;
\* initiates go on the rollup list also when every output is on the host.
C2_InitiatesOnly ==
  (entry \in FillEntries /\ tx_requests.ok
     /\ RollupChainId \notin DOMAIN signed_fills.val) =>
    LET reqs == tx_requests.val
    IN  /\ Len(reqs) = Len(cur)
        /\ ~HasKind(reqs, "fill")
        /\ \A j \in 1..Len(cur) :
             /\ reqs[j].kind = "initiate"
             /\ reqs[j].payload = cur[j]
             /\ reqs[j].to = RuOrders

C2_Witness ==
  /\ entry = "fill" /\ tx_requests.ok
  /\ DOMAIN signed_fills.val = {HostChainId}
  /\ Len(cur) = 2 /\ cur[1].id # cur[2].id
  /\ Len(tx_requests.val) = 2

\* C3: the host request list is exactly the host fill when there is a
\* SignedFill for the host chain id and empty otherwise; it never holds an
\* initiate and never more than one request.
C3_HostList ==
  (entry \in FillEntries /\ host_tx_requests.ok) =>
    LET reqs == host_tx_requests.val
    IN  /\ Len(reqs) <= 1
        /\ ~HasKind(reqs, "initiate")
        /\ IF HostChainId \in DOMAIN signed_fills.val
           THEN /\ Len(reqs) = 1
                /\ reqs[1].kind = "fill"
                /\ reqs[1].to = HostOrders
                /\ reqs[1].payload = signed_fills.val[HostChainId]
           ELSE reqs = <<>>

C3_Witness ==
  /\ entry = "fill" /\ host_tx_requests.ok
  /\ Len(cur) = 2
  /\ DOMAIN signed_fills.val = {RollupChainId, HostChainId}
  /\ Len(host_tx_requests.val) = 1

\* C4: a fill attempt over zero orders fails with the empty-order-set error
\* and makes no external call: no signing, no provider call, no relay
\* submission, no confirmation watch.
C4_EmptyNoCalls ==
  (entry = "fill" /\ orders = <<>>) =>
    /\ calls = <<>>
    /\ tx_cache = <<>>
    /\ watchers = <<>>
    /\ ~signed_fills.ok
    /\ pc \in {"fill", "done"}
    /\ (pc = "done" => call_result = "EmptyOrderSet" /\ outcomes = <<"EmptyOrderSet">>)

C4_Witness ==
  entry = "fill" /\ orders = <<>> /\ pc = "done" /\ call_result = "EmptyOrderSet"


\* C5: under fill_individually the failure of the attempt for one order does
\* not block the others: when the call has returned, every order of the
\* input has had its own fill attempt.
C5_EveryOrderAttempted ==
  (entry = "fill_individually" /\ pc = "done") => Len(outcomes) = Len(orders)

\* position of a call in the attempt: signing, encoding, submitting, confirming
StepRank(c) ==
  CASE c.op = "sign" -> 1
    [] c.op \in {"fill", "get_chain_id"} -> 3
    [] c.op \in {"get_block_number", "forward_bundle"} -> 4
    [] c.op = "watch_pending_transaction" -> 5

ErrorsOf(c) ==
  CASE c.op = "sign" -> {"SigningFailed", "UnknownChain"}
    [] c.op \in {"fill", "get_chain_id"} -> {"EncodingFailed"}
    [] c.op = "get_block_number" -> {"ProviderError"}
    [] c.op = "forward_bundle" -> {"RelayRejected"}
    [] c.op = "watch_pending_transaction" -> WatchErrors

\* C6: an attempt signs, sequences, encodes, submits and confirms in that
\* order; a failing step ends the attempt with that step's error and no later
\* step runs; no bundle is sent unless signing succeeded and both lists were
\* encoded.
C6_StepOrder ==
  entry \in FillEntries =>
    /\ \A a, b \in 1..Len(calls) :
         a < b => StepRank(calls[a]) <= StepRank(calls[b])
    /\ (tx_requests.ok \/ host_tx_requests.ok) =>
         /\ signed_fills.ok
         /\ \E j \in 1..Len(calls) : calls[j].op = "sign" /\ calls[j].ok
    /\ \A j \in 1..Len(calls) :
         /\ calls[j].op = "fill" =>
              IF calls[j].chain = "rollup" THEN tx_requests.ok
              ELSE host_tx_requests.ok /\ rollup_signed.ok
         /\ calls[j].op \in {"get_block_number", "forward_bundle"} =>
              /\ signed_fills.ok /\ rollup_signed.ok /\ host_signed.ok
              /\ \A k \in 1..(j - 1) : calls[k].ok
         /\ calls[j].op = "watch_pending_transaction" =>
              \E k \in 1..(j - 1) : calls[k].op = "forward_bundle" /\ calls[k].ok
         /\ ~calls[j].ok =>
              /\ j = Len(calls)
              /\ pc = "done"
              /\ call_result \in ErrorsOf(calls[j])
              /\ outcomes[Len(outcomes)] = call_result
    /\ (pc = "done" /\ call_result = "ok") =>
         \A j \in 1..Len(calls) : calls[j].ok

C6_Witness ==
  /\ entry = "fill" /\ pc = "done" /\ call_result = "EncodingFailed"
  /\ rollup_signed.ok /\ host_tx_requests.ok
  /\ calls[Len(calls)].chain = "host"

FailedEncode(chain) ==
  \E j \in 1..Len(calls) :
    /\ calls[j].op \in {"fill", "get_chain_id"}
    /\ calls[j].chain = chain
    /\ ~calls[j].ok

Sent == \E j \in 1..Len(calls) : calls[j].op = "forward_bundle"

\* C7: encoding is all-or-nothing: when filling or signing fails for the
\* request at some position, the encoder returns an error and no list, and no
\* bundle is built from a partial list.
C7_AllOrNothing ==
  /\ entry \in FillEntries =>
       /\ FailedEncode("rollup") =>
            ~rollup_signed.ok /\ ~Sent /\ call_result = "EncodingFailed"
       /\ FailedEncode("host") =>
            ~host_signed.ok /\ ~Sent /\ call_result = "EncodingFailed"
       /\ rollup_signed.ok => Len(rollup_signed.val) = Len(tx_requests.val)
       /\ host_signed.ok => Len(host_signed.val) = Len(host_tx_requests.val)
       /\ \A j \in 1..Len(calls) :
            (calls[j].op = "forward_bundle" /\ calls[j].ok) =>
               /\ Len(tx_cache[calls[j].val].txs) = Len(tx_requests.val)
               /\ Len(tx_cache[calls[j].val].host_txs) = Len(host_tx_requests.val)
  /\ entry = "send_dummy_bundles" =>
       /\ FailedEncode("rollup") =>
            ~rollup_signed.ok /\ tx_cache = <<>> /\ call_result = "EncodingFailed"
       /\ \A j \in 1..Len(tx_cache) : Len(tx_cache[j].txs) = Len(tx_requests.val)

C7_Witness ==
  /\ entry = "fill" /\ pc = "done" /\ call_result = "EncodingFailed"
  /\ \E j \in 1..Len(calls) :
       /\ calls[j].op = "fill" /\ calls[j].chain = "rollup"
       /\ ~calls[j].ok /\ calls[j].val >= 2

FillsDone(chain) ==
  Cardinality({ j \in 1..Len(calls) :
                  calls[j].op = "fill" /\ calls[j].chain = chain /\ calls[j].ok })

EncodingOf(signed, reqs, chain_id) ==
  /\ Len(signed) = Len(reqs)
  /\ \A j \in 1..Len(reqs) :
       /\ Decode(signed[j].encoded).request = reqs[j]
       /\ Decode(signed[j].encoded).chain_id = chain_id
       /\ Decode(signed[j].encoded).from = SignerAddress
       /\ signed[j].hash = <<"keccak256", signed[j].encoded>>

\* C8: on success the encoder returns exactly one signed transaction per
\* request, and the one at index i encodes the request at index i.
C8_OnePerRequest ==
  entry \in FillEntries =>
    /\ rollup_signed.ok =>
         /\ EncodingOf(rollup_signed.val, tx_requests.val, RollupChainId)
         /\ FillsDone("rollup") = Len(tx_requests.val)
    /\ host_signed.ok =>
         /\ EncodingOf(host_signed.val, host_tx_requests.val, HostChainId)
         /\ FillsDone("host") = Len(host_tx_requests.val)

C8_Witness ==
  /\ entry = "fill" /\ rollup_signed.ok /\ host_signed.ok
  /\ Len(rollup_signed.val) = 3
  /\ Len(host_signed.val) = 1

Observed == calls[CHOOSE j \in 1..Len(calls) : calls[j].op = "get_block_number"].val

\* C10: with every relay call succeeding, resubmission over N blocks from
\* observed block B submits exactly N bundles, the i-th targeting B + i, in
\* increasing order, differing only in the target: same transactions, no host
\* fill, no reverting hashes, no timestamp window, no replacement id.
C10_Resubmission ==
  entry = "send_dummy_bundles" =>
    /\ Len(tx_cache) <= num_blocks
    /\ \A j \in 1..Len(tx_cache) :
         /\ tx_cache[j].block_number = Observed + j
         /\ tx_cache[j].txs = rollup_signed.val
         /\ tx_cache[j].txs = tx_cache[1].txs
         /\ tx_cache[j].host_fills = None
         /\ tx_cache[j].reverting_tx_hashes = <<>>
         /\ tx_cache[j].min_timestamp = None
         /\ tx_cache[j].max_timestamp = None
         /\ tx_cache[j].replacement_uuid = None
    /\ (pc = "done" /\ call_result = "ok") => Len(tx_cache) = num_blocks
    /\ (pc = "done" /\ Len(tx_cache) < num_blocks) => call_result # "ok"

C10_Witness ==
  /\ entry = "send_dummy_bundles" /\ pc = "done" /\ call_result = "ok"
  /\ num_blocks >= 2 /\ Len(tx_cache) = num_blocks
  /\ Observed >= 1


\* the bundle at position k is not included yet, its target block is still to
\* come and every signed transaction it carries is still unmined
StillIncludable(k) ==
  /\ k \notin landed
  /\ tx_cache[k].block_number > ru_head
  /\ Range(tx_cache[k].txs) \cap Mined = {}

ForwardsOk ==
  { j \in 1..Len(calls) : calls[j].op = "forward_bundle" /\ calls[j].ok }

\* C12: a relay error on the j-th submission of a resubmission run ends the
\* run with that error; the bundles for the later targets are never
\* submitted and the j-1 bundles accepted before stay submitted.
C12_RelayErrorStops ==
  entry = "send_dummy_bundles" =>
    /\ Cardinality(ForwardsOk) = Len(tx_cache)
    /\ \A j \in 1..Len(calls) :
         (calls[j].op = "forward_bundle" /\ ~calls[j].ok) =>
           /\ j = Len(calls)
           /\ pc = "done"
           /\ call_result = "RelayRejected"
           /\ Len(tx_cache) = calls[j].val
           /\ Len(tx_cache) < num_blocks
           /\ \A k \in 1..Len(tx_cache) :
                tx_cache[k].block_number = Observed + k

C12_Witness ==
  /\ entry = "send_dummy_bundles" /\ pc = "done"
  /\ call_result = "RelayRejected"
  /\ num_blocks = 3 /\ Len(tx_cache) = 1

\* the attempt last run has returned to its caller
AttemptOver == pc \in {"done", "for_order"} /\ outcomes # <<>>

LastOutcome == outcomes[Len(outcomes)]

WatchedHashes == HashesOf(rollup_signed.val) \o HashesOf(host_signed.val)

\* C13: a fill attempt reports success only if the relay accepted the bundle
\* and every watch, one per rollup transaction hash and one per host
\* transaction hash, confirmed; a single watch that times out or errors makes
\* the whole attempt fail with that error.
C13_SuccessNeedsAll ==
  entry \in FillEntries =>
    /\ (AttemptOver /\ LastOutcome = "ok") =>
         /\ \E j \in 1..Len(calls) : calls[j].op = "forward_bundle" /\ calls[j].ok
         /\ Len(watchers) = Len(WatchedHashes)
         /\ \A k \in 1..Len(watchers) :
              /\ watchers[k].hash = WatchedHashes[k]
              /\ watchers[k].chain =
                   (IF k <= Len(rollup_signed.val) THEN "rollup" ELSE "host")
              /\ watchers[k].status = "confirmed"
    /\ \A k \in 1..Len(watchers) :
         watchers[k].status \in WatchErrors =>
           /\ pc = "done"
           /\ LastOutcome = watchers[k].status
           /\ call_result = watchers[k].status

C13_Witness ==
  /\ entry = "fill" /\ pc = "done" /\ call_result = "ok"
  /\ \E k \in 1..Len(watchers) : watchers[k].chain = "rollup"
  /\ \E k \in 1..Len(watchers) : watchers[k].chain = "host"

Pending == { k \in 1..Len(watchers) : watchers[k].status = "pending" }

Failed == { k \in 1..Len(watchers) : watchers[k].status \in WatchErrors }

WatchFailureReported ==
  entry \in FillEntries /\ pc = "done" /\ call_result \in WatchErrors

\* C14 (as stated): the attempt does not report a watch failure while another
\* watch is still pending.
C14_WaitsForEveryWatch == WatchFailureReported => Pending = {}

\* C14 (amended): the attempt reports failure as soon as the first watch
\* fails; exactly one watch has failed then and each other watch is confirmed
\* or was dropped while pending. Only success waits for every watch.
C14_FailsFast ==
  entry \in FillEntries =>
    /\ WatchFailureReported =>
         /\ Cardinality(Failed) = 1
         /\ \A k \in Failed : watchers[k].status = call_result
    /\ (Failed # {}) => WatchFailureReported
    /\ (AttemptOver /\ LastOutcome = "ok") => Pending = {}

C14_Witness == WatchFailureReported /\ Pending # {} /\ Failed # {}

\* C15 (as stated): the error of a failed attempt names the hash and the chain
\* of the watch that failed.
C15_NamesFailedWatch ==
  WatchFailureReported =>
    \E k \in Failed : report.chain = watchers[k].chain
                      /\ report.hash = watchers[k].hash

\* C15 (amended): an error of the pending transaction (the timeout) names the
\* hash and the chain of the watch that failed first, whatever its position
\* among the watches; an error of watch_pending_transaction itself is
\* reported as it is and names neither.
C15_TimeoutNamesFirst ==
  entry \in FillEntries =>
    IF WatchFailureReported
    THEN \A k \in Failed :
           /\ report.kind = call_result
           /\ call_result = "ConfirmationTimeout" =>
                report.chain = watchers[k].chain /\ report.hash = watchers[k].hash
           /\ call_result = "ConfirmationError" =>
                report.chain = "" /\ report.hash = <<>>
    ELSE report = NoReport

C15_Witness ==
  /\ WatchFailureReported
  /\ call_result = "ConfirmationTimeout"
  /\ \E k \in Failed : watchers[k].chain = "host" /\ report.hash = watchers[k].hash
  /\ \E j \in Pending : watchers[j].chain = "rollup"

CallsOf(op) == { j \in 1..Len(calls) : calls[j].op = op }

RequestsOn(chain) ==
  IF chain = "rollup" THEN tx_requests.val ELSE host_tx_requests.val

\* C16: within one Filler::fill attempt the signer is invoked at most once,
\* each transaction request is filled at most once, the relay's submit call
\* is made at most once and each transaction hash is watched at most once.
C16_NoRetry ==
  entry \in FillEntries =>
    /\ Cardinality(CallsOf("sign")) <= 1
    /\ Cardinality(CallsOf("get_block_number")) <= 1
    /\ Cardinality(CallsOf("forward_bundle")) <= 1
    /\ \A a, b \in CallsOf("fill") :
         (calls[a].chain = calls[b].chain /\ calls[a].val = calls[b].val) => a = b
    /\ \A a \in CallsOf("fill") : calls[a].val \in 1..Len(RequestsOn(calls[a].chain))
    /\ Cardinality(CallsOf("watch_pending_transaction")) = Len(watchers)
    /\ \A a, b \in 1..Len(watchers) :
         watchers[a].hash = watchers[b].hash => a = b

C16_Witness ==
  /\ entry = "fill" /\ pc = "done" /\ call_result = "ok"
  /\ Cardinality(CallsOf("sign")) = 1
  /\ Cardinality(CallsOf("forward_bundle")) = 1
  /\ Cardinality(CallsOf("fill")) = 4
  /\ Len(watchers) = 4

\* one element per unit of amount of every output of os on chain c in token t
Units(os, c, t) ==
  UNION { UNION { { <<a, b, u>> : u \in 1..os[a].outputs[b].amount } :
                  b \in { x \in 1..Len(os[a].outputs) :
                            os[a].outputs[x].chainId = c
                            /\ os[a].outputs[x].token = t } } :
          a \in 1..Len(os) }

\* C17: the aggregate signed for a non-empty order set holds, for each
\* (destination chain id, token) pair with an output, the arithmetic sum of
\* the amounts of all outputs of all orders with that chain id and token;
\* nothing is netted across tokens or chains and no amount is negative.
C17_AggregateSums ==
  (entry \in FillEntries /\ signed_fills.ok) =>
    /\ \A a \in 1..Len(cur) : \A b \in 1..Len(cur[a].outputs) :
         LET o == cur[a].outputs[b]
         IN  /\ o.chainId \in DOMAIN signed_fills.val
             /\ <<o.chainId, o.token>> \in DOMAIN signed_fills.val[o.chainId].outputs
             /\ signed_fills.val[o.chainId].outputs[<<o.chainId, o.token>>] >= o.amount
    /\ \A c \in DOMAIN signed_fills.val :
         \A k \in DOMAIN signed_fills.val[c].outputs :
           /\ k[1] = c
           /\ signed_fills.val[c].outputs[k] = Cardinality(Units(cur, k[1], k[2]))
           /\ signed_fills.val[c].outputs[k] > 0

C17_Witness ==
  /\ entry = "fill" /\ signed_fills.ok /\ Len(cur) = 2
  /\ RollupChainId \in DOMAIN signed_fills.val
  /\ HostChainId \in DOMAIN signed_fills.val
  /\ signed_fills.val[RollupChainId].outputs[<<RollupChainId, "usdc_ru">>] = 3
  /\ signed_fills.val[HostChainId].outputs[<<HostChainId, "usdc_host">>] = 1

\* destination chain ids of the outputs of the orders being filled
OutputChains(os) ==
  UNION { { os[a].outputs[b].chainId : b \in 1..Len(os[a].outputs) } :
               a \in 1..Len(os) }

HasUnknownChain == \E c \in OutputChains(cur) : c \notin DOMAIN SystemContracts

\* C18: signing yields exactly one SignedFill per destination chain id of the
\* orders, each for a chain with a configured contract and carrying that
\* contract; with an output on a chain that has no configured contract,
\* signing fails with UnknownChain and the attempt submits nothing.
C18_OneFillPerChain ==
  entry \in FillEntries =>
    /\ signed_fills.ok =>
         /\ DOMAIN signed_fills.val = OutputChains(cur)
         /\ \A c \in DOMAIN signed_fills.val :
              /\ c \in DOMAIN SystemContracts
              /\ signed_fills.val[c].chain_id = c
              /\ signed_fills.val[c].order_contract = SystemContracts[c]
    /\ HasUnknownChain =>
         /\ ~signed_fills.ok
         /\ CallsOf("forward_bundle") = {}
         /\ CallsOf("sign") # {} =>
              /\ pc = "done"
              /\ LastOutcome = "UnknownChain"
              /\ call_result = "UnknownChain"

C18_Witness ==
  /\ entry = "fill" /\ pc = "done" /\ call_result = "UnknownChain"
  /\ HasUnknownChain
  /\ RollupChainId \in OutputChains(cur)
  /\ CallsOf("sign") # {}

\* C19: the deadline of every fill signed for orders o1..on is the permit
\* deadline of o1, whatever the deadlines of o2..on, so the same orders in
\* another order can get another deadline.
C19_FirstOrderDeadline ==
  (entry \in FillEntries /\ signed_fills.ok) =>
    /\ cur[1].deadline.hi = 0
    /\ \A c \in DOMAIN signed_fills.val :
         signed_fills.val[c].deadline = cur[1].deadline.lo

C19_Witness ==
  /\ entry = "fill" /\ signed_fills.ok /\ Len(cur) = 2
  /\ cur[2].deadline.hi = 0
  /\ \E c \in DOMAIN signed_fills.val :
       /\ signed_fills.val[c].deadline = cur[1].deadline.lo
       /\ signed_fills.val[c].deadline # cur[2].deadline.lo

\* C20: the deadline of a signed fill is less than or equal to the deadline
\* of each order the fill covers.
C20_FillWithinEveryDeadline ==
  (entry \in FillEntries /\ signed_fills.ok) =>
    \A c \in DOMAIN signed_fills.val : \A a \in 1..Len(cur) :
      cur[a].deadline.hi > 0 \/ signed_fills.val[c].deadline <= cur[a].deadline.lo

\* C21: when the lead order's deadline does not fit a u64, the attempt fails
\* with InvalidDeadline before anything is aggregated, signed, encoded or
\* submitted; the deadline of no other order is parsed.
C21_InvalidLeadDeadline ==
  entry \in FillEntries =>
    /\ (cur # <<>> /\ cur[1].deadline.hi # 0 /\ pc \notin {"fill", "sign_fills"}) =>
         /\ pc = "done"
         /\ LastOutcome = "InvalidDeadline"
         /\ call_result = "InvalidDeadline"
         /\ calls = <<>>
         /\ ~signed_fills.ok /\ ~tx_requests.ok /\ ~host_tx_requests.ok
         /\ ~rollup_signed.ok /\ ~host_signed.ok
         /\ encoded_txs = <<>> /\ watchers = <<>>
    /\ (pc = "done" /\ call_result = "InvalidDeadline") =>
         cur # <<>> /\ cur[1].deadline.hi # 0
    /\ signed_fills.ok => cur[1].deadline.hi = 0

C21_Witness ==
  /\ entry = "fill" /\ pc = "done" /\ call_result = "InvalidDeadline"
  /\ Len(cur) = 2 /\ cur[2].deadline.hi = 0

\* the block the attempt observed as latest before it built its bundle
ObservedLatest == target_block_number.val - 1

\* C22 (as stated): no bundle is submitted to the relay once the deadline of
\* an order it covers has passed.
C22_NoSubmitAfterDeadline ==
  (entry \in FillEntries /\ CallsOf("forward_bundle") # {}) =>
    ~Expired(cur, ObservedLatest)

\* C22 (amended): the attempt consults no deadline and no cancellation before
\* it submits: once the block number is known the bundle is submitted, also
\* when the deadline of an order it covers has passed.
C22_SubmitsRegardless ==
  entry \in FillEntries =>
    /\ (target_block_number.ok /\ pc # "send_bundle") =>
         CallsOf("forward_bundle") # {}
    /\ (pc = "done" /\ cur # <<>>) =>
         call_result \in {"EmptyOrderSet", "InvalidDeadline", "UnknownChain",
                          "SigningFailed", "EncodingFailed", "ProviderError",
                          "RelayRejected", "ok"} \cup WatchErrors

C22_Witness ==
  /\ entry = "fill" /\ pc = "watching"
  /\ CallsOf("forward_bundle") # {}
  /\ Expired(cur, ObservedLatest)

\* what a step of the engine keeps and what it finds at the start of an attempt
FrameStep ==
  entry \in FillEntries =>
    /\ entry' = entry
    /\ orders' = orders
    /\ pc' \notin {"idle", "for_order", "done"} =>
         cur' = (IF entry' = "fill" THEN orders' ELSE <<orders'[idx']>>)
    /\ pc' = "fill" =>
         /\ signed_fills' = None
         /\ tx_requests' = None
         /\ host_tx_requests' = None
         /\ encoded_txs' = <<>>
         /\ rollup_signed' = None
         /\ host_signed' = None
         /\ target_block_number' = None
         /\ watchers' = <<>>
         /\ calls' = <<>>

\* the nonce counter of a provider moves only when that provider fills a
\* transaction, by one
NonceStep ==
  nonces' # nonces =>
    \E l \in {"rollup", "host"} :
      /\ pc = (IF l = "rollup" THEN "sign_and_encode_rollup"
               ELSE "sign_and_encode_host")
      /\ nonces' = [nonces EXCEPT ![l] = @ + 1]

\* C24 (as stated): an attempt only reads the signer, the providers, the relay
\* client and the constants, does not modify the input orders, and starts
\* with nothing of an earlier attempt.
C24_OnlyReads == [][FrameStep /\ (entry \in FillEntries => nonces' = nonces)]_vars

\* C24 (amended): the caller's orders stay as passed, the attempt works on
\* exactly those orders and starts with no aggregate, fill, request, signed
\* transaction, target or watch of an earlier attempt; the one thing an
\* attempt advances is a provider's nonce counter, by one per transaction
\* filled.
C24_Frame == [][FrameStep /\ (entry \in FillEntries => NonceStep)]_vars

C24_Witness ==
  /\ entry = "fill_individually" /\ pc = "fill" /\ idx = 2
  /\ outcomes = <<"ok">> /\ Len(tx_cache) = 1
  /\ nonces.rollup > 0

\* the steps of an attempt up to the start of the watches: each awaits a
\* signing, provider or relay call that eventually returns
AttemptStep ==
  \/ fill_individually
  \/ fill
  \/ \E b \in BOOLEAN : sign_fills(b)
  \/ fill_rollup_txn_requests
  \/ \E out \in ProviderAnswers : fill_sign_and_encode_rollup(out)
  \/ fill_host_txn_requests
  \/ \E out \in ProviderAnswers : fill_sign_and_encode_host(out)
  \/ \E b \in BOOLEAN : fill_get_block_number(b)
  \/ \E b \in BOOLEAN : send_bundle(b)
  \/ watch_confirmations

\* .with_timeout(Some(Duration::from_secs(300))): a pending watch times out
TimeoutStep ==
  \E k \in 1..Len(watchers) : watch_single_failed(k, "ConfirmationTimeout")

LiveSpec == Spec /\ WF_vars(AttemptStep) /\ WF_vars(TimeoutStep)

\* C25: every fill attempt eventually reaches a terminal state (it returns
\* Ok or an error), given that each signing, provider and relay call returns
\* and each watch is bounded by its timeout; no confirmation is assumed.
C25_AttemptTerminates ==
  (entry \in FillEntries /\ pc = "fill") ~> (pc \in {"done", "for_order"})

C25_Witness ==
  /\ entry = "fill" /\ pc = "done" /\ call_result = "ConfirmationTimeout"
  /\ landed = {} /\ Pending # {}

\* the bundles the current attempt has had accepted by the relay
SubmittedBundles ==
  { tx_cache[calls[j].val] :
      j \in { x \in CallsOf("forward_bundle") : calls[x].ok } }

\* the request carried by each wire encoding of a list
RequestsIn(encs) == [p \in 1..Len(encs) |-> Decode(encs[p]).request]

\* C26: the bundle a fill attempt submits carries the encoded rollup
\* transactions in the sequencer's order and the encoded host transactions
\* as its host list; with a rollup fill, the fill is the first rollup
\* transaction, every other one is an initiate, and the rollup transactions
\* number the orders plus one if a rollup fill exists.
C26_BundleOrder ==
  entry \in FillEntries =>
    \A b \in SubmittedBundles :
      /\ RequestsIn(b.txs) = tx_requests.val
      /\ RequestsIn(b.host_txs) = host_tx_requests.val
      /\ b.txs = EncodedOf(rollup_signed.val)
      /\ b.host_txs = EncodedOf(host_signed.val)
      /\ Len(b.txs) = Len(cur)
                      + (IF RollupChainId \in DOMAIN signed_fills.val THEN 1 ELSE 0)
      /\ RollupChainId \in DOMAIN signed_fills.val =>
           /\ RequestsIn(b.txs)[1].kind = "fill"
           /\ RequestsIn(b.txs)[1].payload = signed_fills.val[RollupChainId]
           /\ \A p \in 2..Len(b.txs) :
                /\ RequestsIn(b.txs)[p].kind = "initiate"
                /\ RequestsIn(b.txs)[p].payload = cur[p - 1]
      /\ RollupChainId \notin DOMAIN signed_fills.val =>
           \A p \in 1..Len(b.txs) :
             /\ RequestsIn(b.txs)[p].kind = "initiate"
             /\ RequestsIn(b.txs)[p].payload = cur[p]

C26_Witness ==
  /\ entry = "fill" /\ Len(cur) = 2
  /\ \E b \in SubmittedBundles :
       /\ Len(b.txs) = 3 /\ Len(b.host_txs) = 1
       /\ RequestsIn(b.txs)[1].kind = "fill"

WatchCallsMade == CallsOf("watch_pending_transaction")

\* C27: watches start only after the relay has accepted the bundle, none
\* when the relay call errors; the watched hashes are exactly the hashes of
\* the transactions of the submitted bundle, one watch per hash, each rollup
\* hash on the rollup provider and each host hash on the host provider.
C27_WatchesAfterAccept ==
  entry \in FillEntries =>
    /\ (\E j \in CallsOf("forward_bundle") : ~calls[j].ok) =>
         watchers = <<>> /\ WatchCallsMade = {}
    /\ \A w \in WatchCallsMade :
         \E j \in CallsOf("forward_bundle") : j < w /\ calls[j].ok
    /\ (watchers # <<>> \/ WatchCallsMade # {}) =>
         /\ Cardinality(SubmittedBundles) = 1
         /\ Cardinality(WatchCallsMade) = Len(watchers)
         /\ \A b \in SubmittedBundles :
              /\ Len(watchers) = Len(b.txs) + Len(b.host_txs)
              /\ \A k \in 1..Len(b.txs) :
                   /\ watchers[k].hash = HashOfEncoded(b.txs[k])
                   /\ watchers[k].chain = "rollup"
              /\ \A k \in 1..Len(b.host_txs) :
                   /\ watchers[Len(b.txs) + k].hash = HashOfEncoded(b.host_txs[k])
                   /\ watchers[Len(b.txs) + k].chain = "host"
         /\ \A k \in 1..Len(watchers) :
              calls[Len(calls) - Len(watchers) + k].op = "watch_pending_transaction"
              /\ calls[Len(calls) - Len(watchers) + k].chain = watchers[k].chain

C27_Witness ==
  /\ entry = "fill" /\ pc = "watching"
  /\ \E k \in 1..Len(watchers) : watchers[k].chain = "rollup"
  /\ \E k \in 1..Len(watchers) : watchers[k].chain = "host"
  /\ Pending # {}

AttemptRunning == pc \notin {"idle", "for_order", "done"}

\* the orders whose initiate transaction a bundle carries, in bundle order
InitiatedBy(b) ==
  LET reqs == RequestsIn(b.txs)
      RECURSIVE Pick(_)
      Pick(p) == IF p > Len(reqs) THEN <<>>
                 ELSE (IF reqs[p].kind = "initiate" THEN <<reqs[p].payload>> ELSE <<>>)
                      \o Pick(p + 1)
  IN  Pick(1)

\* C28: fill_individually takes the orders one at a time in input order: the
\* attempt for order i runs only after the attempts for orders 1..i-1 have
\* each returned Ok, confirmation included, and the j-th bundle submitted
\* carries the initiate of order j and of no other order.
C28_Sequential ==
  entry = "fill_individually" =>
    /\ AttemptRunning =>
         /\ idx \in 1..Len(orders)
         /\ cur = <<orders[idx]>>
         /\ Len(outcomes) = idx - 1
         /\ \A j \in 1..Len(outcomes) : outcomes[j] = "ok"
         /\ Len(tx_cache) \in {idx - 1, idx}
         /\ Len(tx_cache) = idx <=> CallsOf("forward_bundle") # {}
                                    /\ \A j \in CallsOf("forward_bundle") : calls[j].ok
    /\ \A j \in 1..Len(tx_cache) : InitiatedBy(tx_cache[j]) = <<orders[j]>>
    /\ \A j \in 1..Len(calls) : calls[j].op = "forward_bundle" /\ calls[j].ok =>
         calls[j].val = Len(tx_cache)

C28_Witness ==
  /\ entry = "fill_individually" /\ idx = 2 /\ pc = "watching"
  /\ Len(tx_cache) = 2 /\ outcomes = <<"ok">>

\* a request list uses fills and contracts of one chain only
OnChain(reqs, chain_id, contract) ==
  \A p \in 1..Len(reqs) :
    /\ reqs[p].to = contract
    /\ reqs[p].kind = "fill" =>
         /\ chain_id \in DOMAIN signed_fills.val
         /\ reqs[p].payload = signed_fills.val[chain_id]
         /\ reqs[p].payload.chain_id = chain_id
         /\ reqs[p].payload.order_contract = contract
         /\ \A k \in DOMAIN reqs[p].payload.outputs : k[1] = chain_id

\* C29: the fill keyed by the rollup chain id is used only for the rollup
\* fill request, addressed to the rollup orders contract, and the fill keyed
\* by the host chain id only for the host fill request, addressed to the
\* host orders contract; every initiate is addressed to the rollup orders
\* contract with the filler's address as recipient, and the host list holds
\* no initiate.
C29_FillsStayOnChain ==
  entry \in FillEntries =>
    /\ tx_requests.ok =>
         /\ OnChain(tx_requests.val, RollupChainId, RuOrders)
         /\ \A p \in 1..Len(tx_requests.val) :
              tx_requests.val[p].kind = "initiate" =>
                tx_requests.val[p].token_recipient = SignerAddress
    /\ host_tx_requests.ok =>
         /\ OnChain(host_tx_requests.val, HostChainId, HostOrders)
         /\ \A p \in 1..Len(host_tx_requests.val) :
              host_tx_requests.val[p].kind = "fill"
    /\ rollup_signed.ok =>
         \A p \in 1..Len(rollup_signed.val) :
           Decode(rollup_signed.val[p].encoded).chain_id = RollupChainId
    /\ host_signed.ok =>
         \A p \in 1..Len(host_signed.val) :
           Decode(host_signed.val[p].encoded).chain_id = HostChainId

C29_Witness ==
  /\ entry = "fill" /\ host_signed.ok
  /\ Len(host_signed.val) = 1 /\ Len(rollup_signed.val) = 3
  /\ tx_requests.val[1].kind = "fill"

\* C30: fill_individually called with no orders returns Ok without a fill
\* attempt and without any signing, provider or relay call, whereas fill
\* called with no orders fails with the empty-order-set error.
C30_EmptyIndividually ==
  /\ (entry = "fill_individually" /\ orders = <<>>) =>
       /\ pc \in {"for_order", "done"}
       /\ pc = "done" => call_result = "ok"
       /\ outcomes = <<>> /\ calls = <<>> /\ tx_cache = <<>>
       /\ cur = <<>> /\ watchers = <<>>
       /\ nonces = [rollup |-> 0, host |-> 0]
       /\ ~signed_fills.ok /\ ~rollup_signed.ok /\ ~host_signed.ok
  /\ (entry = "fill" /\ orders = <<>> /\ pc = "done") =>
       call_result = "EmptyOrderSet" /\ calls = <<>>

C30_Witness ==
  entry = "fill_individually" /\ orders = <<>> /\ pc = "done" /\ call_result = "ok"

\* the copies of the target order among the fetched orders
Matches == { p \in 1..Len(fetched) : fetched[p] = target_order.val }

\* the round trip has fetched its orders and called fill_individually
RoundTrip == target_order.ok /\ entry = "fill_individually"

\* only the target order reaches the filler: the slice passed on, the slice of
\* every attempt and the initiates of every submitted bundle hold nothing else
C31_OnlyTargetFilled ==
  RoundTrip =>
    /\ \A p \in 1..Len(orders) : orders[p] = target_order.val
    /\ Len(orders) = Cardinality(Matches)
    /\ cur \in {<<>>, <<target_order.val>>}
    /\ \A j \in 1..Len(tx_cache) :
         \A o \in Range(InitiatedBy(tx_cache[j])) : o = target_order.val

\* once the flow is over, one attempt was made per fetched copy of the target
C31_EveryCopyAttempted ==
  (RoundTrip /\ pc = "done") => Len(outcomes) = Cardinality(Matches)

\* with no copy of the target fetched, nothing is attempted or submitted and
\* the flow returns Ok
C31_NoMatchNoBundle ==
  (RoundTrip /\ Matches = {}) =>
    /\ outcomes = <<>>
    /\ tx_cache = <<>>
    /\ ~AttemptRunning
    /\ pc = "done" => call_result = "ok"

\* C31: in the round-trip flow only orders equal to the just-submitted target
\* order are passed to the filler: no other fetched order is ever filled,
\* every fetched copy equal to the target is attempted, and with no matching
\* order fetched the flow ends successfully with no bundle submitted.
C31_RoundTripFilter ==
  /\ C31_OnlyTargetFilled
  /\ C31_EveryCopyAttempted
  /\ C31_NoMatchNoBundle

\* two copies of the target were fetched and the flow ended after the first
\* attempt failed, the second copy never attempted
C31_CopySkipped ==
  /\ RoundTrip /\ pc = "done"
  /\ Cardinality(Matches) = 2
  /\ Len(outcomes) = 1 /\ outcomes[1] # "ok"

\* the fetched orders hold the target next to another order, and the target's
\* bundle was submitted
C31_FilteredFill ==
  /\ RoundTrip
  /\ Cardinality(Matches) = 1 /\ Len(fetched) = 2
  /\ Len(tx_cache) = 1

\* nothing fetched matches the target and the flow is over
C31_NoMatch ==
  /\ RoundTrip /\ pc = "done"
  /\ fetched # <<>> /\ Matches = {}


====
